---- MODULE Spec2Model ----
(***************************************************************************)
(* Model of the vehicle tracker of track.py: the geometry value types      *)
(* (Point, Box), the tracked object (Vehicle), the frame record (Frame)    *)
(* and the Tracker with its per-frame protocol (track).  One call of       *)
(* track is a sequence of steps, one per method the call makes, so that    *)
(* the state between two steps can be observed.                            *)
(***************************************************************************)
EXTENDS Integers, Sequences, FiniteSets, TLC

(* ------------------------------ bounds -------------------------------- *)

\* Size of the image (and of every heatmap), in pixels.
GridW == 26
GridH == 2
\* Number of track calls explored.
MaxFrames == 4
\* Largest heatmap_window_size and vehicle_window_size explored.
MaxHeatmapWindow == 4
MaxVehicleWindow == 2
\* Number of hot search windows the detector stacks on one detection.
HeatPerDetection == 3

(* ------------------------- program constants -------------------------- *)

\* track.py:73, the claim radius in pixels.
ClaimDistance == 20
\* track.py:201, frames_detected above which a vehicle's box is boosted.
BoostFramesDetected == 24
\* track.py:203, the boost factor.
BoostFactor == 3
\* track.py:129, the number of smoothed frames check_box_change inspects.
StableFrames == 3
\* track.py:232, heatmap_threshold_per_frame of the driver, in tenths (1.7).
DriverThreshold == 17
\* heatmap_threshold_per_frame is held in tenths: the value is n / ThresholdDen.
ThresholdDen == 10

VARIABLES
    heatmap_window_size,          \* Tracker.heatmap_window_size
    heatmap_threshold_per_frame,  \* Tracker.heatmap_threshold_per_frame, in tenths
    vehicle_window_size,          \* Tracker.vehicle_window_size
    frames,                       \* Tracker.frames, most recent first
    smoothed_frames,              \* Tracker.smoothed_frames, most recent first
    vehicles,                     \* Tracker.vehicles
    heatmap_boxes_count,          \* Tracker.heatmap_boxes_count
    pc,                           \* position inside track ("idle" between calls)
    heatmap,                      \* local of track: the smoothed heatmap
    boxes,                        \* local of track: the smoothed boxes
    drawn,                        \* the boxes last handed to sr.draw_boxes
    nframes,                      \* history: number of track calls started
    next_oid,                     \* history: number of Vehicle objects created
    calls                         \* history: what each track call did, oldest first

vars == <<heatmap_window_size, heatmap_threshold_per_frame, vehicle_window_size,
          frames, smoothed_frames, vehicles, heatmap_boxes_count,
          pc, heatmap, boxes, drawn, nframes, next_oid, calls>>

config == <<heatmap_window_size, heatmap_threshold_per_frame, vehicle_window_size>>

(* ------------------------------ helpers ------------------------------- *)

Min(a, b) == IF a < b THEN a ELSE b
Max(a, b) == IF a > b THEN a ELSE b

\* Python's None.
None == [none |-> TRUE]

\* Python's int() of the rational n / d (d > 0): truncation toward zero.
IntTrunc(n, d) == IF n >= 0 THEN n \div d ELSE -((-n) \div d)

\* deque.appendleft / deque.pop (pop removes the rightmost, the oldest).
AppendLeft(q, e) == <<e>> \o q
PopRight(q) == SubSeq(q, 1, Len(q) - 1)

(* ------------------------------ geometry ------------------------------ *)

Point(x, y) == [x |-> x, y |-> y]

get_center(a, b) == Point((a.x + b.x) \div 2, (a.y + b.y) \div 2)

\* Box.__init__ from a corner pair <<<<x0, y0>>, <<x1, y1>>>>.
Box(t) ==
    LET tl == Point(t[1][1], t[1][2])
        br == Point(t[2][1], t[2][2])
    IN  [top_left |-> tl, bottom_right |-> br, center |-> get_center(tl, br)]

\* Mutant: the corners come back with x and y exchanged.
as_tuple_transposed(b) ==
    <<<<b.top_left.y, b.top_left.x>>, <<b.bottom_right.y, b.bottom_right.x>>>>

as_tuple(b) ==
    <<<<b.top_left.x, b.top_left.y>>, <<b.bottom_right.x, b.bottom_right.y>>>>

\* Mutant: the overlaps are not clamped at 0.
get_overlap_area_unclamped(a, b) ==
    LET x_overlap == Min(a.bottom_right.x, b.bottom_right.x)
                     - Max(a.top_left.x, b.top_left.x)
        y_overlap == Min(a.bottom_right.y, b.bottom_right.y)
                     - Max(a.top_left.y, b.top_left.y)
    IN  x_overlap * y_overlap

get_overlap_area(a, b) ==
    LET x_overlap == Max(0, Min(a.bottom_right.x, b.bottom_right.x)
                            - Max(a.top_left.x, b.top_left.x))
        y_overlap == Max(0, Min(a.bottom_right.y, b.bottom_right.y)
                            - Max(a.top_left.y, b.top_left.y))
    IN  x_overlap * y_overlap

\* The square of Point.get_distance: sqrt(s) < 20 iff s < 20 * 20 on integers.
get_distance_sq(p, q) == (p.x - q.x) * (p.x - q.x) + (p.y - q.y) * (p.y - q.y)

get_center_distance_sq(a, b) == get_distance_sq(a.center, b.center)

(* ------------------------------ heatmaps ------------------------------ *)

\* The cells of an image: <<x, y>>, numpy's heatmap[y, x].
Cells == (0 .. GridW - 1) \X (0 .. GridH - 1)

\* The cells of the numpy slice [y0 : y1, x0 : x1] (non-negative bounds).
InSlice(c, x0, y0, x1, y1) == x0 <= c[1] /\ c[1] < x1 /\ y0 <= c[2] /\ c[2] < y1

RECURSIVE SumAt(_, _, _)
SumAt(fs, c, k) == IF k > Len(fs) THEN 0 ELSE fs[k].heatmap[c] + SumAt(fs, c, k + 1)

\* np.sum(heatmaps, axis = 0) over the heatmaps of the raw frames.
sum_heatmaps(fs) == [c \in Cells |-> SumAt(fs, c, 1)]

\* Mutant: a vehicle detected in exactly BoostFramesDetected frames is boosted too.
boost_vehicle_at_limit(h, v) ==
    IF v.frames_detected >= BoostFramesDetected
    THEN LET b == v.box
         IN  [c \in Cells |->
                IF InSlice(c, b.top_left.x, b.top_left.y, b.bottom_right.x, b.bottom_right.y)
                THEN h[c] * BoostFactor
                ELSE h[c]]
    ELSE h

\* One pass of the loop of boost_heatmap, for one vehicle.
boost_vehicle(h, v) ==
    IF v.frames_detected > BoostFramesDetected
    THEN LET b == v.box
         IN  [c \in Cells |->
                IF InSlice(c, b.top_left.x, b.top_left.y, b.bottom_right.x, b.bottom_right.y)
                THEN h[c] * BoostFactor
                ELSE h[c]]
    ELSE h

RECURSIVE boost_from(_, _, _)
boost_from(h, vs, k) ==
    IF k > Len(vs) THEN h ELSE boost_from(boost_vehicle(h, vs[k]), vs, k + 1)

boost_heatmap(h, vs) == boost_from(h, vs, 1)

\* Mutant: the threshold does not grow with the number of raw frames.
heatmap_threshold_unscaled(threshold_per_frame, fs) ==
    IntTrunc(threshold_per_frame, ThresholdDen)

\* The threshold smooth_heatmaps hands to sr.apply_threshold.
heatmap_threshold(threshold_per_frame, fs) ==
    IntTrunc(threshold_per_frame * Len(fs), ThresholdDen)

\* sr.apply_threshold: cells at or below the threshold are zeroed.
apply_threshold(h, t) == [c \in Cells |-> IF h[c] <= t THEN 0 ELSE h[c]]

\* scipy's label with its default structure: 4-connected regions of the
\* non-zero cells, numbered in raster order of their first cell.
Adjacent(c, d) ==
    \/ c[1] = d[1] /\ (c[2] = d[2] + 1 \/ d[2] = c[2] + 1)
    \/ c[2] = d[2] /\ (c[1] = d[1] + 1 \/ d[1] = c[1] + 1)

RECURSIVE Component(_, _)
Component(region, nz) ==
    LET more == {c \in nz \ region : \E d \in region : Adjacent(c, d)}
    IN  IF more = {} THEN region ELSE Component(region \cup more, nz)

RasterFirst(cs) ==
    CHOOSE c \in cs : \A d \in cs : c[2] < d[2] \/ (c[2] = d[2] /\ c[1] <= d[1])

RECURSIVE Regions(_)
Regions(nz) ==
    IF nz = {} THEN <<>>
    ELSE LET reg == Component({RasterFirst(nz)}, nz)
         IN  <<reg>> \o Regions(nz \ reg)

label(h) == Regions({c \in Cells : h[c] # 0})

\* sr.convert_to_bboxes: the bounding rectangle of each region, as a corner pair.
BoundingBox(reg) ==
    LET xs == {c[1] : c \in reg}
        ys == {c[2] : c \in reg}
        lo(S) == CHOOSE m \in S : \A n \in S : m <= n
        hi(S) == CHOOSE m \in S : \A n \in S : m >= n
    IN  <<<<lo(xs), lo(ys)>>, <<hi(xs), hi(ys)>>>>

convert_to_bboxes(regs) == [k \in 1 .. Len(regs) |-> BoundingBox(regs[k])]

\* Tracker.smooth_heatmaps: the smoothed heatmap and the boxes of its regions.
smooth_heatmaps(fs, vs, threshold_per_frame) ==
    LET summed  == sum_heatmaps(fs)
        boosted == boost_heatmap(summed, vs)
        cut     == apply_threshold(boosted, heatmap_threshold(threshold_per_frame, fs))
    IN  [heatmap |-> cut, boxes |-> convert_to_bboxes(label(cut))]

\* Frame.__init__; seq is history, the number of the track call that made it.
Frame(h, label_boxes, seq) == [heatmap |-> h, label_boxes |-> label_boxes, seq |-> seq]

\* Mutant: on overflow the newest record is dropped.
add_frame_drops_newest(fs, search_result, window_size, seq) ==
    LET added == AppendLeft(fs, Frame(search_result.heatmap, search_result.boxes, seq))
    IN  IF Len(added) > window_size THEN Tail(added) ELSE added

add_frame(fs, search_result, window_size, seq) ==
    LET added == AppendLeft(fs, Frame(search_result.heatmap, search_result.boxes, seq))
    IN  IF Len(added) > window_size THEN PopRight(added) ELSE added

\* Mutant: the smoothed record is not added.
add_smoothed_frame_skipped(fs, h, bs, window_size, seq) == fs

add_smoothed_frame(fs, h, bs, window_size, seq) ==
    LET added == AppendLeft(fs, Frame(h, bs, seq))
    IN  IF Len(added) > window_size THEN PopRight(added) ELSE added

(* ------------------------------ Vehicle ------------------------------- *)

\* Vehicle.__init__; oid is history, the identity of the Python object.
Vehicle(box, window_size, oid) ==
    [box |-> box, window_size |-> window_size, boxes |-> <<box>>,
     frames_since_detected |-> 0, frames_detected |-> 1, oid |-> oid]

RECURSIVE SumCoord(_, _, _, _)
SumCoord(bs, i, j, k) ==
    IF k > Len(bs) THEN 0 ELSE as_tuple(bs[k])[i][j] + SumCoord(bs, i, j, k + 1)

\* Mutant: the box becomes the newest box of the window.
update_box_newest(v) == [v EXCEPT !.box = v.boxes[1]]

\* Vehicle.update_box: the box becomes the corner-wise floor mean of the window.
update_box(v) ==
    LET avg(i, j) == SumCoord(v.boxes, i, j, 1) \div Len(v.boxes)
    IN  [v EXCEPT !.box = Box(<<<<avg(1, 1), avg(1, 2)>>, <<avg(2, 1), avg(2, 2)>>>>)]

\* Mutant: a box at exactly the claim radius is claimed too.
owns_at_radius(v, other) ==
    \/ get_overlap_area(v.box, other) > 0
    \/ get_center_distance_sq(v.box, other) <= ClaimDistance * ClaimDistance

\* The test of Vehicle.check_ownership_single.
owns(v, other) ==
    \/ get_overlap_area(v.box, other) > 0
    \/ get_center_distance_sq(v.box, other) < ClaimDistance * ClaimDistance

\* Mutant: the window is never trimmed.
claim_window_untrimmed(v, other) == AppendLeft(v.boxes, other)

\* The window of a vehicle after it claimed other.
claim_window(v, other) ==
    LET added == AppendLeft(v.boxes, other)
    IN  IF Len(added) > v.window_size THEN PopRight(added) ELSE added

\* Vehicle.check_ownership_single: the vehicle after the call, and what it returns.
check_ownership_single(v, other) ==
    IF owns(v, other)
    THEN [vehicle |-> update_box([v EXCEPT !.boxes = claim_window(v, other)]),
          claimed |-> TRUE]
    ELSE [vehicle |-> v, claimed |-> FALSE]

\* The first loop of Vehicle.check_ownership, from candidate box k on.
RECURSIVE claim_from(_, _, _, _)
claim_from(v, bs, k, claimed) ==
    IF k > Len(bs) THEN [vehicle |-> v, claimed |-> claimed]
    ELSE LET r == check_ownership_single(v, bs[k])
         IN  claim_from(r.vehicle, bs, k + 1, Append(claimed, r.claimed))

\* Mutant: the absence limit is one frame longer.
absent_one_more(v) == v.frames_since_detected > v.window_size + 1

\* The absence limit of Vehicle.check_ownership.
absent_too_long(v) == v.frames_since_detected > v.window_size

\* Mutant: with no candidate box at all the vehicle is left as it is.
count_detection_skips_empty(v, claimed) ==
    IF claimed = <<>> THEN v
    ELSE IF \E k \in 1 .. Len(claimed) : claimed[k]
    THEN [v EXCEPT !.frames_since_detected = 0, !.frames_detected = @ + 1]
    ELSE LET w == [v EXCEPT !.frames_since_detected = @ + 1]
         IN  IF absent_too_long(w)
             THEN [w EXCEPT !.box = None, !.frames_detected = 0]
             ELSE w

\* Mutant: frames_detected counts every claimed box.
count_detection_per_claim(v, claimed) ==
    IF \E k \in 1 .. Len(claimed) : claimed[k]
    THEN [v EXCEPT !.frames_since_detected = 0,
                   !.frames_detected = @ + Cardinality({k \in 1 .. Len(claimed) : claimed[k]})]
    ELSE LET w == [v EXCEPT !.frames_since_detected = @ + 1]
         IN  IF absent_too_long(w)
             THEN [w EXCEPT !.box = None, !.frames_detected = 0]
             ELSE w

\* Mutant: a frame without a claim restarts frames_detected.
count_detection_restarts(v, claimed) ==
    IF \E k \in 1 .. Len(claimed) : claimed[k]
    THEN [v EXCEPT !.frames_since_detected = 0, !.frames_detected = @ + 1]
    ELSE LET w == [v EXCEPT !.frames_since_detected = @ + 1, !.frames_detected = 0]
         IN  IF absent_too_long(w)
             THEN [w EXCEPT !.box = None, !.frames_detected = 0]
             ELSE w

\* The second half of Vehicle.check_ownership: the counters after the claims.
count_detection(v, claimed) ==
    IF \E k \in 1 .. Len(claimed) : claimed[k]
    THEN [v EXCEPT !.frames_since_detected = 0, !.frames_detected = @ + 1]
    ELSE LET w == [v EXCEPT !.frames_since_detected = @ + 1]
         IN  IF absent_too_long(w)
             THEN [w EXCEPT !.box = None, !.frames_detected = 0]
             ELSE w

\* Vehicle.check_ownership: the vehicle after the call, and the list it returns.
check_ownership(v, bs) ==
    LET r == claim_from(v, bs, 1, <<>>)
    IN  [vehicle |-> count_detection(r.vehicle, r.claimed), claimed |-> r.claimed]

(* ------------------------------ Tracker ------------------------------- *)

\* Mutant: the loop breaks after one frame, the current one.
RECURSIVE box_change_breaks_early(_, _, _, _)
box_change_breaks_early(n, sf, k, i) ==
    IF k > Len(sf) THEN TRUE
    ELSE IF i >= 1 THEN TRUE
    ELSE IF n # Len(sf[k].label_boxes) THEN FALSE
    ELSE box_change_breaks_early(n, sf, k + 1, i + 1)

\* Mutant: the loop inspects one frame more.
RECURSIVE box_change_breaks_late(_, _, _, _)
box_change_breaks_late(n, sf, k, i) ==
    IF k > Len(sf) THEN TRUE
    ELSE IF i >= StableFrames + 1 THEN TRUE
    ELSE IF n # Len(sf[k].label_boxes) THEN FALSE
    ELSE box_change_breaks_late(n, sf, k + 1, i + 1)

\* Mutant: the loop returns on a frame of the new count, not of another count.
RECURSIVE box_change_on_difference(_, _, _, _)
box_change_on_difference(n, sf, k, i) ==
    IF k > Len(sf) THEN TRUE
    ELSE IF i >= StableFrames THEN TRUE
    ELSE IF n = Len(sf[k].label_boxes) THEN FALSE
    ELSE box_change_on_difference(n, sf, k + 1, i + 1)

\* Mutant: a history that ends before StableFrames entries does not reset.
RECURSIVE box_change_needs_full_history(_, _, _, _)
box_change_needs_full_history(n, sf, k, i) ==
    IF i >= StableFrames THEN TRUE
    ELSE IF k > Len(sf) THEN FALSE
    ELSE IF n # Len(sf[k].label_boxes) THEN FALSE
    ELSE box_change_needs_full_history(n, sf, k + 1, i + 1)

\* The loop of check_box_change over the smoothed frames, at frame k with
\* counter i: TRUE when the loop ends or breaks, FALSE when it returns.
RECURSIVE box_change_is_genuine(_, _, _, _)
box_change_is_genuine(n, sf, k, i) ==
    IF k > Len(sf) THEN TRUE
    ELSE IF i >= StableFrames THEN TRUE
    ELSE IF n # Len(sf[k].label_boxes) THEN FALSE
    ELSE box_change_is_genuine(n, sf, k + 1, i + 1)

\* Tracker.check_box_change: whether the call resets the vehicles.
check_box_change(bs, count, sf) ==
    Len(bs) # count /\ box_change_is_genuine(Len(bs), sf, 1, 0)

\* Tracker.reset_vehicles.
reset_vehicles(vs) == <<>>

\* The loop of update_vehicles over the vehicles, from vehicle k on.
RECURSIVE claim_all(_, _, _, _)
claim_all(vs, bs, k, claimed) ==
    IF k > Len(vs) THEN [vehicles |-> vs, claimed |-> claimed]
    ELSE LET r == check_ownership(vs[k], bs)
         IN  claim_all([vs EXCEPT ![k] = r.vehicle], bs, k + 1,
                       [i \in 1 .. Len(claimed) |-> claimed[i] \/ r.claimed[i]])

\* Mutant: a new Vehicle for every box, claimed or not.
RECURSIVE append_every(_, _, _, _, _, _)
append_every(vs, bs, claimed, k, window_size, oid) ==
    IF k > Len(bs) THEN vs
    ELSE append_every(Append(vs, Vehicle(bs[k], window_size, oid)),
                      bs, claimed, k + 1, window_size, oid + 1)

\* The last loop of update_vehicles: a new Vehicle for every unclaimed box.
RECURSIVE append_unclaimed(_, _, _, _, _, _)
append_unclaimed(vs, bs, claimed, k, window_size, oid) ==
    IF k > Len(bs) THEN vs
    ELSE IF claimed[k] THEN append_unclaimed(vs, bs, claimed, k + 1, window_size, oid)
    ELSE append_unclaimed(Append(vs, Vehicle(bs[k], window_size, oid)),
                          bs, claimed, k + 1, window_size, oid + 1)

\* Tracker.update_vehicles.
update_vehicles(vs, box_tuples, window_size, oid) ==
    LET bs == [k \in 1 .. Len(box_tuples) |-> Box(box_tuples[k])]
        r  == claim_all(vs, bs, 1, [k \in 1 .. Len(bs) |-> FALSE])
    IN  append_unclaimed(r.vehicles, bs, r.claimed, 1, window_size, oid)

\* Mutant: nothing is removed.
remove_vehicles_none(vs) == vs

\* Tracker.remove_vehicles.
remove_vehicles(vs) == SelectSeq(vs, LAMBDA v : v.box # None)

\* Tracker.draw_vehicle_boxes: the boxes handed to sr.draw_boxes.
draw_vehicle_boxes(vs) ==
    LET live == SelectSeq(vs, LAMBDA v : v.box # None)
    IN  [k \in 1 .. Len(live) |-> as_tuple(live[k].box)]

(* ------------------------------ detector ------------------------------ *)

\* Search windows as corner pairs; the heat of a window covers the slice
\* [y0 : y1, x0 : x1], as the detector's add_heat does.
WindowA  == <<<<1, 0>>, <<5, GridH>>>>
WindowA2 == <<<<8, 0>>, <<12, GridH>>>>
WindowB  == <<<<22, 0>>, <<26, GridH>>>>

\* A detection: HeatPerDetection hot windows at the same place.
Hot(w) == [k \in 1 .. HeatPerDetection |-> w]

\* The hot windows of the frames drawn: nothing, a vehicle at A, a vehicle at
\* B (beyond the claim radius of A), vehicles at A, A2 and B (A2 within the
\* claim radius of both).
Detections ==
    {<<>>, Hot(WindowA), Hot(WindowB), Hot(WindowA) \o Hot(WindowA2) \o Hot(WindowB)}

\* searcher.search: the heatmap and the boxes of one frame; every hot window
\* adds 1 to the cells it covers.
search(ws) ==
    [heatmap |-> [c \in Cells |->
                    Cardinality({k \in 1 .. Len(ws) :
                        InSlice(c, ws[k][1][1], ws[k][1][2], ws[k][2][1], ws[k][2][2])})],
     boxes |-> ws]

(* ------------------------- the tracker's steps ------------------------ *)

\* Tracker.__init__ with the given configuration.
Construct(hws, threshold, vws) ==
    /\ heatmap_window_size = hws
    /\ heatmap_threshold_per_frame = threshold
    /\ vehicle_window_size = vws
    /\ frames = <<>>
    /\ smoothed_frames = <<>>
    /\ vehicles = <<>>
    /\ heatmap_boxes_count = 0
    /\ pc = "idle"
    /\ heatmap = None
    /\ boxes = None
    /\ drawn = <<>>
    /\ nframes = 0
    /\ next_oid = 0
    /\ calls = <<>>

\* A Tracker built with a configuration the interface allows.
Init ==
    \E hws \in 1 .. MaxHeatmapWindow, vws \in 1 .. MaxVehicleWindow :
        Construct(hws, DriverThreshold, vws)

\* track, line 113: the detector is called and its result joins the raw frames.
AddFrame ==
    /\ pc = "idle"
    /\ nframes < MaxFrames
    /\ \E ws \in Detections :
        frames' = add_frame(frames, search(ws), heatmap_window_size, nframes + 1)
    /\ nframes' = nframes + 1
    /\ pc' = "smooth_heatmaps"
    /\ UNCHANGED <<config, smoothed_frames, vehicles, heatmap_boxes_count,
                   heatmap, boxes, drawn, next_oid, calls>>

\* track, line 115.
SmoothHeatmaps ==
    /\ pc = "smooth_heatmaps"
    /\ LET r == smooth_heatmaps(frames, vehicles, heatmap_threshold_per_frame)
       IN  /\ heatmap' = r.heatmap
           /\ boxes' = r.boxes
    /\ pc' = "add_smoothed_frame"
    /\ UNCHANGED <<config, frames, smoothed_frames, vehicles, heatmap_boxes_count,
                   drawn, nframes, next_oid, calls>>

\* track, line 116.
AddSmoothedFrame ==
    /\ pc = "add_smoothed_frame"
    /\ smoothed_frames' =
           add_smoothed_frame(smoothed_frames, heatmap, boxes, heatmap_window_size, nframes)
    /\ pc' = "check_box_change"
    /\ UNCHANGED <<config, frames, vehicles, heatmap_boxes_count, heatmap, boxes,
                   drawn, nframes, next_oid, calls>>

\* The oids of a list of vehicles.
Oids(vs) == {vs[k].oid : k \in 1 .. Len(vs)}

\* track, line 118.
CheckBoxChange ==
    /\ pc = "check_box_change"
    /\ IF check_box_change(boxes, heatmap_boxes_count, smoothed_frames)
       THEN /\ vehicles' = reset_vehicles(vehicles)
            /\ heatmap_boxes_count' = Len(boxes)
       ELSE UNCHANGED <<vehicles, heatmap_boxes_count>>
    /\ calls' = Append(calls,
           [count         |-> Len(boxes),
            stable_before |-> heatmap_boxes_count,
            stable        |-> heatmap_boxes_count',
            reset         |-> check_box_change(boxes, heatmap_boxes_count, smoothed_frames),
            left          |-> Len(vehicles'),
            present       |-> Oids(vehicles'),
            claimers      |-> {},
            nulled        |-> {},
            kept          |-> {}])
    /\ pc' = "update_vehicles"
    /\ UNCHANGED <<config, frames, smoothed_frames, heatmap, boxes, drawn,
                   nframes, next_oid>>

\* The vehicles of vs that claim at least one of the candidate boxes.
Claimers(vs, box_tuples) ==
    LET bs == [k \in 1 .. Len(box_tuples) |-> Box(box_tuples[k])]
    IN  {vs[k].oid : k \in {j \in 1 .. Len(vs) :
            \E i \in 1 .. Len(bs) : check_ownership(vs[j], bs).claimed[i]}}

\* track, line 120.
UpdateVehicles ==
    /\ pc = "update_vehicles"
    /\ vehicles' = update_vehicles(vehicles, boxes, vehicle_window_size, next_oid)
    /\ next_oid' = next_oid + (Len(vehicles') - Len(vehicles))
    /\ calls' = [calls EXCEPT ![Len(calls)] =
           [@ EXCEPT !.claimers = Claimers(vehicles, boxes),
                     !.nulled = {vehicles'[k].oid : k \in {j \in 1 .. Len(vehicles') :
                                    /\ vehicles'[j].box = None
                                    /\ vehicles'[j].frames_detected = 0}}]]
    /\ pc' = "remove_vehicles"
    /\ UNCHANGED <<config, frames, smoothed_frames, heatmap_boxes_count, heatmap,
                   boxes, drawn, nframes>>

\* track, line 121.
RemoveVehicles ==
    /\ pc = "remove_vehicles"
    /\ vehicles' = remove_vehicles(vehicles)
    /\ calls' = [calls EXCEPT ![Len(calls)] = [@ EXCEPT !.kept = Oids(vehicles')]]
    /\ pc' = "draw_vehicle_boxes"
    /\ UNCHANGED <<config, frames, smoothed_frames, heatmap_boxes_count, heatmap,
                   boxes, drawn, nframes, next_oid>>

\* track, line 123: the boxes go to the renderer and the call returns.
DrawVehicleBoxes ==
    /\ pc = "draw_vehicle_boxes"
    /\ drawn' = draw_vehicle_boxes(vehicles)
    /\ heatmap' = None
    /\ boxes' = None
    /\ pc' = "idle"
    /\ UNCHANGED <<config, frames, smoothed_frames, vehicles, heatmap_boxes_count,
                   nframes, next_oid, calls>>

Next ==
    \/ AddFrame
    \/ SmoothHeatmaps
    \/ AddSmoothedFrame
    \/ CheckBoxChange
    \/ UpdateVehicles
    \/ RemoveVehicles
    \/ DrawVehicleBoxes

Spec == Init /\ [][Next]_vars

(* ------------------------ box-count stabilization --------------------- *)

\* Calls i - 2 and i - 1 saw the smoothed count c, stable when call i began,
\* call i saw another count and call i + 1 saw c again.
TransientAt(i) ==
    /\ i >= 3
    /\ i + 1 <= Len(calls)
    /\ calls[i - 2].count = calls[i - 1].count
    /\ calls[i].stable_before = calls[i - 1].count
    /\ calls[i].count # calls[i - 1].count
    /\ calls[i + 1].count = calls[i - 1].count

\* Neither call i nor call i + 1 reset the vehicles or changed the stable count.
TransientIgnoredAt(i) ==
    /\ ~calls[i].reset
    /\ ~calls[i + 1].reset
    /\ calls[i].stable = calls[i].stable_before
    /\ calls[i + 1].stable = calls[i].stable_before

\* C1 as stated, for any valid configuration: a one-frame outlier of the
\* smoothed box count between frames of the stable count c never resets the
\* vehicles and leaves heatmap_boxes_count = c.
C1_TransientIgnoredAnyConfig ==
    \A i \in 1 .. Len(calls) : TransientAt(i) => TransientIgnoredAt(i)

\* C1, amended: with heatmap_window_size >= 2, a one-frame outlier of the
\* smoothed box count between frames of the stable count c never resets the
\* vehicles in check_box_change and leaves heatmap_boxes_count = c in both frames.
C1_TransientIgnored ==
    heatmap_window_size >= 2 =>
        \A i \in 1 .. Len(calls) : TransientAt(i) => TransientIgnoredAt(i)

\* A transient fluctuation has been seen with a history of two or more frames,
\* while vehicles were tracked.
C1_Witness ==
    /\ heatmap_window_size >= 2
    /\ pc = "idle"
    /\ \E i \in 1 .. Len(calls) :
        TransientAt(i) /\ calls[i].left > 0 /\ calls[i + 1].left > 0

\* The smoothed count switches at call i, away from the count stable when
\* call i begins, and stays for calls i, i + 1 and i + 2.
GenuineAt(i) ==
    /\ i + 2 <= Len(calls)
    /\ calls[i].count # calls[i].stable_before
    /\ i > 1 => calls[i - 1].count # calls[i].count
    /\ calls[i + 1].count = calls[i].count
    /\ calls[i + 2].count = calls[i].count

\* C2: when the smoothed box count switches away from the stable count and
\* stays at d for 3 consecutive frames, check_box_change of one of those
\* frames empties the vehicle list and sets heatmap_boxes_count to d, and
\* heatmap_boxes_count is d after the third.
C2_GenuineChangeAccepted ==
    \A i \in 1 .. Len(calls) :
        GenuineAt(i) =>
            /\ \E j \in i .. i + 2 :
                /\ calls[j].reset
                /\ calls[j].left = 0
                /\ calls[j].stable = calls[i].count
            /\ calls[i + 2].stable = calls[i].count

\* A change was accepted on the third frame only, with vehicles to clear.
C2_Witness ==
    \E i \in 1 .. Len(calls) :
        /\ GenuineAt(i)
        /\ ~calls[i].reset
        /\ ~calls[i + 1].reset
        /\ calls[i + 2].reset
        /\ calls[i + 1].kept # {}

(* --------------------------- object lifecycle ------------------------- *)

\* update_vehicles of call i has run; remove_vehicles of call i has run.
Updated(i) == i < Len(calls) \/ pc \in {"remove_vehicles", "draw_vehicle_boxes", "idle"}
Cleaned(i) == i < Len(calls) \/ pc \in {"draw_vehicle_boxes", "idle"}

\* Vehicle o was in the list and claimed no box in each of the
\* vehicle_window_size + 1 calls ending with call i.
AbsentRun(o, i) ==
    /\ i - vehicle_window_size >= 1
    /\ Updated(i)
    /\ \A j \in (i - vehicle_window_size) .. i :
        o \in calls[j].present /\ o \notin calls[j].claimers

\* C3: a vehicle that claims no candidate box in vehicle_window_size + 1
\* consecutive frames has box None and frames_detected 0 after update_vehicles
\* of the last of them, and is not in the list after remove_vehicles of that frame.
C3_AbsentVehicleRemoved ==
    \A i \in 1 .. Len(calls) : \A o \in calls[i].present :
        AbsentRun(o, i) =>
            /\ o \in calls[i].nulled
            /\ Cleaned(i) => o \notin calls[i].kept /\ (i = Len(calls) => o \notin Oids(vehicles))

\* A vehicle went unclaimed for vehicle_window_size + 1 frames and was removed,
\* with a window of more than one frame.
C3_Witness ==
    /\ vehicle_window_size >= 2
    /\ pc = "idle"
    /\ \E i \in 1 .. Len(calls) : \E o \in calls[i].present :
        AbsentRun(o, i) /\ o \notin calls[i].kept

\* The vehicle before each candidate box of one check_ownership call, and
\* after the last: steps[k] meets bs[k], steps[k + 1] is what the claim leaves.
RECURSIVE claim_steps(_, _, _)
claim_steps(v, bs, k) ==
    IF k > Len(bs) THEN <<v>>
    ELSE <<v>> \o claim_steps(check_ownership_single(v, bs[k]).vehicle, bs, k + 1)

CandidateBoxes == [k \in 1 .. Len(boxes) |-> Box(boxes[k])]

\* The window after a claim holds the claimed box first, then the boxes of
\* the window before in their order, the oldest dropped on overflow.
EvictsOldest(before, after, b, window_size) ==
    /\ Len(after) = Min(Len(before) + 1, window_size)
    /\ after[1] = b
    /\ \A j \in 2 .. Len(after) : after[j] = before[j - 1]

\* C4: the window of every vehicle holds at most vehicle_window_size boxes in
\* every state, and after each single claim of a frame, where the claimed box
\* is first and the oldest box is the one evicted on overflow.
C4_WindowBounded ==
    /\ \A m \in 1 .. Len(vehicles) :
        /\ vehicles[m].window_size = vehicle_window_size
        /\ Len(vehicles[m].boxes) <= vehicle_window_size
    /\ pc = "update_vehicles" =>
        \A m \in 1 .. Len(vehicles) :
            LET steps == claim_steps(vehicles[m], CandidateBoxes, 1)
            IN  \A k \in 1 .. Len(CandidateBoxes) :
                    /\ Len(steps[k + 1].boxes) <= vehicle_window_size
                    /\ IF owns(steps[k], CandidateBoxes[k])
                       THEN EvictsOldest(steps[k].boxes, steps[k + 1].boxes,
                                         CandidateBoxes[k], vehicle_window_size)
                       ELSE steps[k + 1].boxes = steps[k].boxes

\* A vehicle with a full window of two boxes is about to claim two boxes in one frame.
C4_Witness ==
    /\ pc = "update_vehicles"
    /\ vehicle_window_size >= 2
    /\ \E m \in 1 .. Len(vehicles) :
        LET steps == claim_steps(vehicles[m], CandidateBoxes, 1)
        IN  /\ Len(vehicles[m].boxes) = vehicle_window_size
            /\ Cardinality({k \in 1 .. Len(CandidateBoxes) :
                               owns(steps[k], CandidateBoxes[k])}) >= 2

\* The number of smoothed records made so far.
SmoothedMade ==
    IF pc \in {"smooth_heatmaps", "add_smoothed_frame"} THEN nframes - 1 ELSE nframes

\* The history holds the records of the last Min(made, capacity) calls, most recent first.
HoldsMostRecent(history, made, capacity) ==
    /\ Len(history) <= capacity
    /\ Len(history) = Min(made, capacity)
    /\ \A k \in 1 .. Len(history) : history[k].seq = made - k + 1

\* C5: the raw and the smoothed history each hold at most heatmap_window_size
\* records, exactly the most recent ones, most recent first.
C5_HistoriesBounded ==
    /\ HoldsMostRecent(frames, nframes, heatmap_window_size)
    /\ HoldsMostRecent(smoothed_frames, SmoothedMade, heatmap_window_size)

\* Both histories have overflowed a capacity of two or more.
C5_Witness ==
    /\ pc = "idle"
    /\ heatmap_window_size >= 2
    /\ nframes > heatmap_window_size
    /\ Len(frames) = heatmap_window_size
    /\ Len(smoothed_frames) = heatmap_window_size

RECURSIVE WindowSum(_, _, _)
WindowSum(bs, i, j) ==
    IF bs = <<>> THEN 0 ELSE as_tuple(Head(bs))[i][j] + WindowSum(Tail(bs), i, j)

\* The corner-wise floor mean of a window of boxes, as a corner pair.
FloorMean(bs) ==
    LET m(i, j) == WindowSum(bs, i, j) \div Len(bs)
    IN  <<<<m(1, 1), m(1, 2)>>, <<m(2, 1), m(2, 2)>>>>

\* C9: the box of every vehicle that has one is the corner-wise floor mean of
\* the boxes in its window; the window ((0,0),(10,10)), ((2,2),(12,12))
\* gives ((1,1),(11,11)).
C9_BoxIsWindowMean ==
    /\ \A m \in 1 .. Len(vehicles) :
        vehicles[m].box # None =>
            as_tuple(vehicles[m].box) = FloorMean(vehicles[m].boxes)
    /\ pc = "update_vehicles" =>
        \A m \in 1 .. Len(vehicles) :
            LET steps == claim_steps(vehicles[m], CandidateBoxes, 1)
            IN  \A k \in 1 .. Len(steps) :
                    as_tuple(steps[k].box) = FloorMean(steps[k].boxes)
    /\ as_tuple(update_box([Vehicle(Box(<<<<2, 2>>, <<12, 12>>>>), 2, 0)
                  EXCEPT !.boxes = <<Box(<<<<2, 2>>, <<12, 12>>>>),
                                     Box(<<<<0, 0>>, <<10, 10>>>>)>>]).box)
         = <<<<1, 1>>, <<11, 11>>>>

\* A vehicle whose window holds two different boxes, with a mean that is neither.
C9_Witness ==
    \E m \in 1 .. Len(vehicles) :
        /\ vehicles[m].box # None
        /\ Len(vehicles[m].boxes) = 2
        /\ vehicles[m].boxes[1] # vehicles[m].boxes[2]
        /\ vehicles[m].box # vehicles[m].boxes[1]
        /\ vehicles[m].box # vehicles[m].boxes[2]

\* C10: update_vehicles with no candidate box adds 1 to frames_since_detected
\* of every vehicle, creates no vehicle and raises nothing; a vehicle still
\* within the absence limit keeps its box, window and frames_detected, one
\* beyond it has box None and frames_detected 0.
C10_NoBoxesAgesAll ==
    [][(pc = "update_vehicles" /\ boxes = <<>>) =>
        /\ pc' = "remove_vehicles"
        /\ Len(vehicles') = Len(vehicles)
        /\ next_oid' = next_oid
        /\ calls'[Len(calls')].claimers = {}
        /\ \A m \in 1 .. Len(vehicles) :
            /\ vehicles'[m].oid = vehicles[m].oid
            /\ vehicles'[m].frames_since_detected = vehicles[m].frames_since_detected + 1
            /\ vehicles'[m].boxes = vehicles[m].boxes
            /\ IF vehicles[m].frames_since_detected + 1 <= vehicle_window_size
               THEN /\ vehicles'[m].box = vehicles[m].box
                    /\ vehicles'[m].frames_detected = vehicles[m].frames_detected
               ELSE /\ vehicles'[m].box = None
                    /\ vehicles'[m].frames_detected = 0]_vars

\* update_vehicles ran with no candidate box on a list of two vehicles, one
\* left within the absence limit.
C10_Witness ==
    /\ pc = "remove_vehicles"
    /\ boxes = <<>>
    /\ Len(vehicles) >= 1
    /\ \E m \in 1 .. Len(vehicles) :
        /\ vehicles[m].box # None
        /\ vehicles[m].frames_since_detected >= 1

(* --------------------------- configuration ---------------------------- *)

\* A Tracker built with any configuration Tracker.__init__ takes, which is
\* every one: the constructor only stores its arguments.  (With
\* heatmap_window_size <= 0 the raw history stays empty and np.sum of no
\* heatmap is a scalar; what sr.apply_threshold and label make of it lies
\* outside track.py, so those configurations are not drawn.)
InitAny ==
    \E hws \in 1 .. 2, vws \in -1 .. 1,
       threshold \in {-DriverThreshold, 0, DriverThreshold} :
        Construct(hws, threshold, vws)

SpecAny == InitAny /\ [][Next]_vars

InvalidConfiguration ==
    \/ heatmap_window_size <= 0
    \/ vehicle_window_size <= 0
    \/ heatmap_threshold_per_frame <= 0

\* C6: with heatmap_window_size <= 0, vehicle_window_size <= 0 or
\* heatmap_threshold_per_frame <= 0 construction fails, so that no Tracker of
\* such a configuration ever returns from a track call.
C6_InvalidConfigurationRejected == InvalidConfiguration => ~(nframes >= 1 /\ pc = "idle")

(* ------------------- smooth_heatmaps, step by step -------------------- *)

\* Largest number of raw frames drawn.
MaxSmoothFrames == 5

\* The raw frames drawn: in every frame window A and window B are hot once
\* or twice.
SmoothDetections ==
    {<<WindowA, WindowB, WindowB>>, <<WindowA, WindowA, WindowB>>,
     <<WindowA, WindowA, WindowB, WindowB>>}

RawFrames(dets) == [k \in 1 .. Len(dets) |-> Frame(search(dets[k]).heatmap, dets[k], Len(dets) - k + 1)]

\* A vehicle of window size 1 at the given corner pair, detected in fd frames.
TrackedAt(t, fd, oid) == [Vehicle(Box(t), 1, oid) EXCEPT !.frames_detected = fd]

\* The boxes of the vehicles drawn: the region of window A, and a box that
\* overlaps it.
RegionA == <<<<1, 0>>, <<4, GridH - 1>>>>
AcrossA == <<<<3, 0>>, <<9, GridH>>>>

SmoothVehicles ==
    {<<>>,
     <<TrackedAt(RegionA, BoostFramesDetected, 0)>>,
     <<TrackedAt(AcrossA, BoostFramesDetected + 1, 0)>>,
     <<TrackedAt(RegionA, BoostFramesDetected + 1, 0),
       TrackedAt(AcrossA, BoostFramesDetected + 2, 1)>>,
     <<TrackedAt(RegionA, BoostFramesDetected, 0),
       TrackedAt(AcrossA, BoostFramesDetected + 1, 1)>>}

\* A Tracker about to run smooth_heatmaps, with the raw frames and vehicles drawn.
InitSmooth ==
    \E n \in 1 .. MaxSmoothFrames :
    \E dets \in [1 .. n -> SmoothDetections], vs \in SmoothVehicles,
       threshold \in {DriverThreshold, ThresholdDen} :
        /\ heatmap_window_size = MaxSmoothFrames
        /\ heatmap_threshold_per_frame = threshold
        /\ vehicle_window_size = 1
        /\ frames = RawFrames(dets)
        /\ smoothed_frames = <<>>
        /\ vehicles = vs
        /\ heatmap_boxes_count = Len(vs)
        /\ pc = "sum_heatmaps"
        /\ heatmap = None
        /\ boxes = None
        /\ drawn = <<>>
        /\ nframes = n
        /\ next_oid = Len(vs)
        /\ calls = <<>>

\* smooth_heatmaps, lines 189 to 192.
SumHeatmaps ==
    /\ pc = "sum_heatmaps"
    /\ heatmap' = sum_heatmaps(frames)
    /\ pc' = "boost_heatmap"
    /\ UNCHANGED <<config, frames, smoothed_frames, vehicles, heatmap_boxes_count,
                   boxes, drawn, nframes, next_oid, calls>>

\* smooth_heatmaps, line 193.
BoostHeatmap ==
    /\ pc = "boost_heatmap"
    /\ heatmap' = boost_heatmap(heatmap, vehicles)
    /\ pc' = "apply_threshold"
    /\ UNCHANGED <<config, frames, smoothed_frames, vehicles, heatmap_boxes_count,
                   boxes, drawn, nframes, next_oid, calls>>

\* smooth_heatmaps, line 194.
ApplyThreshold ==
    /\ pc = "apply_threshold"
    /\ heatmap' = apply_threshold(heatmap,
                                  heatmap_threshold(heatmap_threshold_per_frame, frames))
    /\ pc' = "label"
    /\ UNCHANGED <<config, frames, smoothed_frames, vehicles, heatmap_boxes_count,
                   boxes, drawn, nframes, next_oid, calls>>

\* smooth_heatmaps, lines 195 to 197.
LabelBoxes ==
    /\ pc = "label"
    /\ boxes' = convert_to_bboxes(label(heatmap))
    /\ pc' = "smoothed"
    /\ UNCHANGED <<config, frames, smoothed_frames, vehicles, heatmap_boxes_count,
                   heatmap, drawn, nframes, next_oid, calls>>

NextSmooth ==
    \/ SumHeatmaps
    \/ BoostHeatmap
    \/ ApplyThreshold
    \/ LabelBoxes

SpecSmooth == InitSmooth /\ [][NextSmooth]_vars

RECURSIVE Power(_, _)
Power(b, k) == IF k = 0 THEN 1 ELSE b * Power(b, k - 1)

\* The vehicles detected in more than 24 frames.
Confident == {m \in 1 .. Len(vehicles) : vehicles[m].frames_detected > 24}

\* Cell c lies within the corners of box b; within its slice, the box less
\* its bottom row and right column, which is what line 203 multiplies.
InsideBox(c, b) ==
    /\ b.top_left.x <= c[1] /\ c[1] <= b.bottom_right.x
    /\ b.top_left.y <= c[2] /\ c[2] <= b.bottom_right.y
InsideSlice(c, b) ==
    /\ b.top_left.x <= c[1] /\ c[1] < b.bottom_right.x
    /\ b.top_left.y <= c[2] /\ c[2] < b.bottom_right.y

\* C7: boost_heatmap multiplies a cell by 3 once for every vehicle with
\* frames_detected > 24 whose box slice holds it; a cell it changes lies inside
\* the box of such a vehicle, every other cell is unchanged, and a vehicle with
\* frames_detected <= 24 multiplies nothing.
C7_BoostOnlyConfident ==
    [][pc = "boost_heatmap" =>
        \A c \in Cells :
            /\ heatmap'[c] = heatmap[c] * Power(3,
                   Cardinality({m \in Confident : InsideSlice(c, vehicles[m].box)}))
            /\ heatmap'[c] # heatmap[c] =>
                   \E m \in Confident : InsideBox(c, vehicles[m].box)
            /\ (\A m \in Confident : ~InsideBox(c, vehicles[m].box)) =>
                   heatmap'[c] = heatmap[c]]_vars

\* boost_heatmap has run on a vehicle with frames_detected = 24 and one with
\* more, and multiplied hot cells of the second only.
C7_Witness ==
    /\ pc = "apply_threshold"
    /\ \E m, n \in 1 .. Len(vehicles) :
        /\ vehicles[m].frames_detected = 24
        /\ vehicles[n].frames_detected > 24
        /\ \E c, d \in Cells :
            /\ InsideSlice(c, vehicles[n].box)
            /\ heatmap[c] = 3 * sum_heatmaps(frames)[c]
            /\ heatmap[c] > 0
            /\ InsideSlice(d, vehicles[m].box)
            /\ ~InsideSlice(d, vehicles[n].box)
            /\ heatmap[d] = sum_heatmaps(frames)[d]
            /\ heatmap[d] > 0

GeomXs == {0, 3, 20, 24, 43, 46}
GeomYs == {0, 2}
GeomBoxes ==
    {<<<<x0, y0>>, <<x1, y1>>>> : x0 \in GeomXs, x1 \in GeomXs, y0 \in GeomYs, y1 \in GeomYs}
WellFormed(t) == t[1][1] <= t[2][1] /\ t[1][2] <= t[2][2]

\* The second candidate boxes drawn for a call with two candidates.
GeomSecond ==
    {<<<<0, 0>>, <<3, 2>>>>, <<<<20, 0>>, <<24, 2>>>>, <<<<43, 0>>, <<46, 2>>>>}

\* A vehicle made from the first corner pair, that has claimed nothing since,
\* and two more corner pairs; the calls below are made on them.
InitGeom ==
    \E t \in {u \in GeomBoxes : WellFormed(u)}, other \in {u \in GeomBoxes : WellFormed(u)},
       second \in GeomSecond, vws \in 1 .. 2 :
        /\ heatmap_window_size = 1
        /\ heatmap_threshold_per_frame = DriverThreshold
        /\ vehicle_window_size = vws
        /\ frames = <<>>
        /\ smoothed_frames = <<>>
        /\ vehicles = <<Vehicle(Box(t), vws, 0)>>
        /\ heatmap_boxes_count = 1
        /\ pc = "geometry"
        /\ heatmap = None
        /\ boxes = <<t, other, second>>
        /\ drawn = None
        /\ nframes = 0
        /\ next_oid = 1
        /\ calls = <<>>

\* Box(boxes[1]).get_overlap_area(Box(boxes[2])); drawn holds what it returns.
GetOverlapArea ==
    /\ pc = "geometry"
    /\ drawn' = get_overlap_area(Box(boxes[1]), Box(boxes[2]))
    /\ pc' = "get_overlap_area"
    /\ UNCHANGED <<config, frames, smoothed_frames, vehicles, heatmap_boxes_count,
                   heatmap, boxes, nframes, next_oid, calls>>

\* Box(boxes[2]).as_tuple(); drawn holds what it returns.
AsTuple ==
    /\ pc = "geometry"
    /\ drawn' = as_tuple(Box(boxes[2]))
    /\ pc' = "as_tuple"
    /\ UNCHANGED <<config, frames, smoothed_frames, vehicles, heatmap_boxes_count,
                   heatmap, boxes, nframes, next_oid, calls>>

\* vehicles[1].check_ownership_single(Box(boxes[2])); drawn holds what it returns.
CheckOwnershipSingle ==
    /\ pc = "geometry"
    /\ LET r == check_ownership_single(vehicles[1], Box(boxes[2]))
       IN  /\ vehicles' = <<r.vehicle>>
           /\ drawn' = r.claimed
    /\ pc' = "check_ownership_single"
    /\ UNCHANGED <<config, frames, smoothed_frames, heatmap_boxes_count,
                   heatmap, boxes, nframes, next_oid, calls>>

\* vehicles[1].check_ownership([Box(boxes[2]), Box(boxes[3])]); drawn holds
\* the list it returns.
CheckOwnership ==
    /\ pc = "geometry"
    /\ LET r == check_ownership(vehicles[1], <<Box(boxes[2]), Box(boxes[3])>>)
       IN  /\ vehicles' = <<r.vehicle>>
           /\ drawn' = r.claimed
    /\ pc' = "check_ownership"
    /\ UNCHANGED <<config, frames, smoothed_frames, heatmap_boxes_count,
                   heatmap, boxes, nframes, next_oid, calls>>

NextGeom ==
    \/ GetOverlapArea
    \/ AsTuple
    \/ CheckOwnershipSingle
    \/ CheckOwnership

SpecGeom == InitGeom /\ [][NextGeom]_vars

\* The corner pairs s and t do not meet on axis k (1 for x, 2 for y): one
\* ends where or before the other begins.
DisjointOn(s, t, k) == s[2][k] <= t[1][k] \/ t[2][k] <= s[1][k]

\* C11: get_overlap_area is never negative, and is 0 for two boxes disjoint
\* on the x axis or on the y axis.
C11_OverlapNonNegative ==
    pc = "get_overlap_area" =>
        /\ drawn >= 0
        /\ (DisjointOn(boxes[1], boxes[2], 1) \/ DisjointOn(boxes[1], boxes[2], 2)) =>
               drawn = 0

\* The overlap of two boxes apart on the x axis, each with an area, was
\* taken; and of two boxes that do overlap.
C11_Witness ==
    /\ pc = "get_overlap_area"
    /\ boxes[1][2][1] < boxes[2][1][1]
    /\ boxes[1][1][1] < boxes[1][2][1] /\ boxes[1][1][2] < boxes[1][2][2]
    /\ boxes[2][1][1] < boxes[2][2][1] /\ boxes[2][1][2] < boxes[2][2][2]
    /\ drawn = 0

\* C12: a box made from the corner pair of a box has its top left and bottom
\* right, and the corner pair of the box made from a corner pair is that pair.
C12_TupleRoundTrip ==
    pc = "as_tuple" =>
        /\ drawn = boxes[2]
        /\ Box(drawn).top_left = Box(boxes[2]).top_left
        /\ Box(drawn).bottom_right = Box(boxes[2]).bottom_right
        /\ Box(drawn).top_left = [x |-> boxes[2][1][1], y |-> boxes[2][1][2]]
        /\ Box(drawn).bottom_right = [x |-> boxes[2][2][1], y |-> boxes[2][2][2]]

\* The corner pair of a box whose four coordinates all differ was taken.
C12_Witness ==
    /\ pc = "as_tuple"
    /\ Cardinality({drawn[1][1], drawn[1][2], drawn[2][1], drawn[2][2]}) = 4

(* ------------------ the decision of check_box_change ------------------ *)

\* The entries of the smoothed history check_box_change inspects: up to
\* StableFrames of them, most recent first.
Inspected == 1 .. Min(StableFrames, Len(smoothed_frames))

\* check_box_change is about to run with a count other than the stable one.
CountChanged == pc = "check_box_change" /\ Len(boxes) # heatmap_boxes_count

\* The step clears the vehicles and takes the new count as stable.
Clears == vehicles' = <<>> /\ heatmap_boxes_count' = Len(boxes)

\* C13 as stated: check_box_change clears the vehicles and takes the new count
\* exactly when every inspected entry has a box count different from the new
\* count, and otherwise leaves both unchanged.
C13_ClearsWhenAllDiffer ==
    [][CountChanged =>
          IF \A k \in Inspected : Len(smoothed_frames[k].label_boxes) # Len(boxes)
          THEN Clears
          ELSE UNCHANGED <<vehicles, heatmap_boxes_count>>]_vars

\* C13, amended: when the new smoothed count differs from heatmap_boxes_count,
\* check_box_change clears the vehicles and takes the new count exactly when
\* every one of the up to 3 most recent smoothed entries has a box count equal
\* to the new count, and otherwise leaves both unchanged.
C13_ClearsWhenAllEqual ==
    [][CountChanged =>
          IF \A k \in Inspected : Len(smoothed_frames[k].label_boxes) = Len(boxes)
          THEN Clears
          ELSE UNCHANGED <<vehicles, heatmap_boxes_count>>]_vars

\* check_box_change has cleared tracked vehicles on three entries of the new
\* count, after an earlier call had left the vehicles alone on a changed count.
C13_Witness ==
    /\ pc = "update_vehicles"
    /\ Len(calls) >= 3
    /\ calls[Len(calls)].reset
    /\ Len(smoothed_frames) >= StableFrames
    /\ calls[Len(calls) - 1].kept # {}
    /\ calls[Len(calls) - 1].count # calls[Len(calls) - 1].stable_before
    /\ ~calls[Len(calls) - 1].reset

(* ------------------------------ claiming ------------------------------ *)

\* The corner pairs s and t share a unit square of the plane.
Overlapping(s, t) ==
    /\ Max(s[1][1], t[1][1]) < Min(s[2][1], t[2][1])
    /\ Max(s[1][2], t[1][2]) < Min(s[2][2], t[2][2])

\* The center of a corner pair, halved coordinates cut to integers.
CenterOf(t) == <<IntTrunc(t[1][1] + t[2][1], 2), IntTrunc(t[1][2] + t[2][2], 2)>>

\* The centers of s and t are closer than the claim radius.
Near(s, t) ==
    LET dx == CenterOf(s)[1] - CenterOf(t)[1]
        dy == CenterOf(s)[2] - CenterOf(t)[2]
    IN  dx * dx + dy * dy < ClaimDistance * ClaimDistance

\* The rule of the claim: the candidate t belongs to a vehicle whose box is s.
Claims(s, t) == Overlapping(s, t) \/ Near(s, t)

\* The window w (corner pairs, newest first) after t was pushed to its front.
Pushed(w, t, window_size) == SubSeq(<<t>> \o w, 1, Min(Len(w) + 1, window_size))

\* The corner-wise floor mean of a window of one or two corner pairs.
MeanOf(w) ==
    [i \in 1 .. 2 |-> [j \in 1 .. 2 |->
        IF Len(w) = 1 THEN w[1][i][j] ELSE (w[1][i][j] + w[2][i][j]) \div 2]]

\* The window of a vehicle as corner pairs.
WindowOf(v) == [k \in 1 .. Len(v.boxes) |-> as_tuple(v.boxes[k])]

\* C14: check_ownership_single returns true iff the vehicle's box and the
\* candidate overlap or their centers are closer than 20; on true the candidate
\* is at the front of the window and the box is the window's mean, on false the
\* vehicle is unchanged. In check_ownership over two candidates the second is
\* tested against the box as the first claim left it.
C14_ClaimRule ==
    /\ pc = "check_ownership_single" =>
          /\ drawn = Claims(boxes[1], boxes[2])
          /\ IF drawn
             THEN /\ WindowOf(vehicles[1]) = Pushed(<<boxes[1]>>, boxes[2], vehicle_window_size)
                  /\ as_tuple(vehicles[1].box) = MeanOf(WindowOf(vehicles[1]))
             ELSE vehicles[1] = Vehicle(Box(boxes[1]), vehicle_window_size, 0)
    /\ pc = "check_ownership" =>
          LET w1 == IF drawn[1] THEN Pushed(<<boxes[1]>>, boxes[2], vehicle_window_size)
                    ELSE <<boxes[1]>>
              w2 == IF drawn[2] THEN Pushed(w1, boxes[3], vehicle_window_size) ELSE w1
          IN  /\ drawn[1] = Claims(boxes[1], boxes[2])
              /\ drawn[2] = Claims(MeanOf(w1), boxes[3])
              /\ WindowOf(vehicles[1]) = w2
              /\ vehicles[1].box # None => as_tuple(vehicles[1].box) = MeanOf(w2)

\* A call of check_ownership has claimed its second candidate only because
\* the first claim, made on distance alone, had moved the box.
C14_Witness ==
    /\ pc = "check_ownership"
    /\ drawn = <<TRUE, TRUE>>
    /\ ~Claims(boxes[1], boxes[3])
    /\ ~Overlapping(boxes[1], boxes[2])

(* ----------------------- detection counters --------------------------- *)

\* The flags check_ownership returns for vehicle v on the candidate boxes.
FlagsOf(v) == check_ownership(v, CandidateBoxes).claimed

\* C15: in check_ownership a vehicle that claims at least one candidate box
\* gets frames_since_detected = 0 and frames_detected one more, however many
\* boxes it claimed; the list returned has one flag per candidate box, true
\* exactly for the boxes the vehicle claimed, each tested in turn.
C15_ClaimCountsOnce ==
    [][pc = "update_vehicles" =>
          \A j \in 1 .. Len(vehicles) :
              LET steps == claim_steps(vehicles[j], CandidateBoxes, 1)
              IN  /\ Len(FlagsOf(vehicles[j])) = Len(boxes)
                  /\ \A k \in 1 .. Len(boxes) :
                         FlagsOf(vehicles[j])[k] = Claims(as_tuple(steps[k].box), boxes[k])
                  /\ (\E k \in 1 .. Len(boxes) : FlagsOf(vehicles[j])[k]) =>
                         /\ vehicles'[j].frames_since_detected = 0
                         /\ vehicles'[j].frames_detected = vehicles[j].frames_detected + 1]_vars

\* A vehicle absent from the frame before has claimed two of the three
\* candidate boxes of this frame, and its counters were updated.
C15_Witness ==
    /\ pc = "remove_vehicles"
    /\ Len(calls) >= 2
    /\ Len(boxes) = 3
    /\ \E j \in 1 .. Len(vehicles) :
           /\ vehicles[j].oid \in calls[Len(calls)].claimers
           /\ vehicles[j].oid \in calls[Len(calls) - 1].kept
           /\ vehicles[j].oid \notin calls[Len(calls) - 1].claimers
           /\ vehicles[j].frames_detected = 2
           /\ Len(vehicles[j].boxes) = 2
           /\ vehicles[j].boxes[1] # vehicles[j].boxes[2]
           /\ \A k \in 1 .. 2 : \E i \in 1 .. 3 : vehicles[j].boxes[k] = Box(boxes[i])

(* ---------------------------- new vehicles ---------------------------- *)

\* The candidate boxes no vehicle of the list claims in update_vehicles.
Unclaimed ==
    {k \in 1 .. Len(boxes) : \A j \in 1 .. Len(vehicles) : ~FlagsOf(vehicles[j])[k]}

\* C16: update_vehicles appends exactly one new vehicle for each candidate box
\* no vehicle there before the call claimed and none for a claimed box; a new
\* vehicle has that box alone in its window and as its box,
\* frames_since_detected = 0 and frames_detected = 1 (it claimed nothing in
\* the call), and the vehicles there before stay in their places.
C16_NewVehiclePerUnclaimedBox ==
    [][pc = "update_vehicles" =>
          LET new == (Len(vehicles) + 1) .. Len(vehicles')
          IN  /\ Len(vehicles') = Len(vehicles) + Cardinality(Unclaimed)
              /\ \A j \in 1 .. Len(vehicles) : vehicles'[j].oid = vehicles[j].oid
              /\ \A k \in Unclaimed :
                     Cardinality({n \in new : vehicles'[n].box = Box(boxes[k])}) = 1
              /\ \A n \in new :
                     /\ \E k \in Unclaimed : vehicles'[n].boxes = <<Box(boxes[k])>>
                     /\ vehicles'[n].box = vehicles'[n].boxes[1]
                     /\ vehicles'[n].frames_since_detected = 0
                     /\ vehicles'[n].frames_detected = 1
                     /\ vehicles'[n].oid \notin Oids(vehicles)]_vars

\* update_vehicles has run on three candidate boxes, some claimed by a vehicle
\* that was there and some not, and a new vehicle was appended.
C16_Witness ==
    /\ pc = "remove_vehicles"
    /\ Len(boxes) = 3
    /\ calls[Len(calls)].claimers # {}
    /\ Len(vehicles) > calls[Len(calls)].left
    /\ Len(vehicles) < calls[Len(calls)].left + 3

(* --------------------------- the order of track ----------------------- *)

\* The frames of a long run: a vehicle stands at A until it has been detected
\* in BoostFramesDetected frames, then anything is seen.
MaxLongFrames == 26

\* track, line 113, in the long run.
AddFrameLong ==
    /\ pc = "idle"
    /\ nframes < MaxLongFrames
    /\ \E ws \in Detections :
        /\ nframes < BoostFramesDetected => ws = Hot(WindowA)
        /\ frames' = add_frame(frames, search(ws), heatmap_window_size, nframes + 1)
    /\ nframes' = nframes + 1
    /\ pc' = "smooth_heatmaps"
    /\ UNCHANGED <<config, smoothed_frames, vehicles, heatmap_boxes_count,
                   heatmap, boxes, drawn, next_oid, calls>>

NextLong ==
    \/ AddFrameLong
    \/ SmoothHeatmaps
    \/ AddSmoothedFrame
    \/ CheckBoxChange
    \/ UpdateVehicles
    \/ RemoveVehicles
    \/ DrawVehicleBoxes

SpecLong == Init /\ [][NextLong]_vars

\* The step of track that follows step p; after the last the call has returned.
StepAfter(p) ==
    CASE p = "idle"               -> "smooth_heatmaps"
      [] p = "smooth_heatmaps"    -> "add_smoothed_frame"
      [] p = "add_smoothed_frame" -> "check_box_change"
      [] p = "check_box_change"   -> "update_vehicles"
      [] p = "update_vehicles"    -> "remove_vehicles"
      [] p = "remove_vehicles"    -> "draw_vehicle_boxes"
      [] p = "draw_vehicle_boxes" -> "idle"

\* The vehicles are those the call before left in the list (none before the
\* first call).
VehiclesOfPreviousFrame ==
    /\ Len(calls) = nframes - 1
    /\ Oids(vehicles) = IF calls = <<>> THEN {} ELSE calls[Len(calls)].kept

\* C17: every track call takes its steps once each and in this order: the
\* detector result joins the raw frames; the heatmaps are summed, boosted,
\* thresholded and labelled, with the vehicles as the frame before left them;
\* the smoothed record joins the smoothed frames; check_box_change runs with
\* that record already newest in the history; update_vehicles; remove_vehicles;
\* the boxes are drawn.
C17_StepsInOrder ==
    [][/\ pc' = StepAfter(pc)
       /\ pc = "idle" =>
              /\ nframes' = nframes + 1
              /\ frames'[1].seq = nframes'
              /\ UNCHANGED <<smoothed_frames, vehicles, heatmap_boxes_count, calls>>
       /\ pc = "smooth_heatmaps" =>
              /\ frames[1].seq = nframes
              /\ smoothed_frames # <<>> => smoothed_frames[1].seq = nframes - 1
              /\ VehiclesOfPreviousFrame
              /\ heatmap' = apply_threshold(boost_heatmap(sum_heatmaps(frames), vehicles),
                                heatmap_threshold(heatmap_threshold_per_frame, frames))
              /\ (\A j \in 1 .. Len(vehicles) :
                      vehicles[j].frames_detected <= BoostFramesDetected) =>
                     heatmap' = apply_threshold(sum_heatmaps(frames),
                                    heatmap_threshold(heatmap_threshold_per_frame, frames))
              /\ boxes' = convert_to_bboxes(label(heatmap'))
              /\ UNCHANGED <<frames, smoothed_frames, vehicles, heatmap_boxes_count, calls>>
       /\ pc = "add_smoothed_frame" =>
              /\ smoothed_frames' # <<>>
              /\ smoothed_frames'[1] = Frame(heatmap, boxes, nframes)
              /\ VehiclesOfPreviousFrame
              /\ UNCHANGED <<frames, vehicles, heatmap_boxes_count, calls>>
       /\ pc = "check_box_change" =>
              /\ smoothed_frames # <<>>
              /\ smoothed_frames[1] = Frame(heatmap, boxes, nframes)
              /\ VehiclesOfPreviousFrame
              /\ Len(calls') = nframes
              /\ UNCHANGED <<frames, smoothed_frames>>
       /\ pc = "update_vehicles" =>
              /\ calls[Len(calls)].present = Oids(vehicles)
              /\ Oids(vehicles) \subseteq Oids(vehicles')
              /\ UNCHANGED <<frames, smoothed_frames, heatmap_boxes_count>>
       /\ pc = "remove_vehicles" =>
              /\ Oids(vehicles') \subseteq Oids(vehicles)
              /\ \A j \in 1 .. Len(vehicles') : vehicles'[j].box # None
              /\ UNCHANGED <<frames, smoothed_frames, heatmap_boxes_count>>
       /\ pc = "draw_vehicle_boxes" =>
              /\ Len(drawn') = Len(vehicles)
              /\ Len(calls) = nframes
              /\ UNCHANGED <<frames, smoothed_frames, vehicles, heatmap_boxes_count, calls>>]_vars

\* The first call reset on its own record alone and made a vehicle; a later
\* call has boosted the heat under that vehicle, which the call before had
\* left with frames_detected above the limit.
C17_Witness ==
    /\ pc = "add_smoothed_frame"
    /\ Len(calls) >= BoostFramesDetected
    /\ calls[1].reset
    /\ calls[1].kept # {}
    /\ Oids(vehicles) = calls[1].kept
    /\ \E j \in 1 .. Len(vehicles) : vehicles[j].frames_detected > BoostFramesDetected
    /\ heatmap # apply_threshold(sum_heatmaps(frames),
                      heatmap_threshold(heatmap_threshold_per_frame, frames))

(* ----------------------------- no null box ---------------------------- *)

\* C18: after every track call returns, and until remove_vehicles of the next
\* call, no vehicle of the list has a null box, so boost_heatmap and
\* check_ownership_single never meet one; the boxes handed to the renderer are
\* the boxes of all the vehicles of the list, one per vehicle and in its order.
C18_NoNullBox ==
    /\ pc # "remove_vehicles" => \A j \in 1 .. Len(vehicles) : vehicles[j].box # None
    /\ (pc = "idle" /\ nframes >= 1) =>
           drawn = [k \in 1 .. Len(vehicles) |-> as_tuple(vehicles[k].box)]

\* A call has returned in which a vehicle's box was set to null and the
\* vehicle removed, while other vehicles stayed and were drawn.
C18_Witness ==
    /\ pc = "idle"
    /\ nframes >= 1
    /\ calls[Len(calls)].nulled # {}
    /\ vehicles # <<>>
    /\ Len(drawn) = Len(vehicles)

(* ------------------------------- warm-up ------------------------------ *)

\* C19: while the smoothed history holds fewer than 3 entries, a count other
\* than heatmap_boxes_count is accepted by check_box_change as soon as every
\* entry of the history has it; and when the first call of a fresh Tracker
\* finds n > 0 smoothed boxes, it returns with heatmap_boxes_count = n and
\* exactly n vehicles, all new.
C19_WarmUp ==
    [][/\ (CountChanged /\ Len(smoothed_frames) < StableFrames) =>
              (Clears <=> \A k \in 1 .. Len(smoothed_frames) :
                              Len(smoothed_frames[k].label_boxes) = Len(boxes))
       /\ (pc = "draw_vehicle_boxes" /\ nframes = 1 /\ Len(boxes) > 0) =>
              /\ heatmap_boxes_count' = Len(boxes)
              /\ Len(vehicles') = Len(boxes)
              /\ \A j \in 1 .. Len(vehicles') :
                     /\ vehicles'[j] = Vehicle(Box(boxes[j]), vehicle_window_size, vehicles'[j].oid)
                     /\ \A i \in 1 .. Len(vehicles') : i # j => vehicles'[i].oid # vehicles'[j].oid]_vars

\* With a history of at most two entries, the first call accepted its n > 0
\* boxes, and a later call accepted another count once both entries had it.
C19_Witness ==
    /\ heatmap_window_size = 2
    /\ pc = "update_vehicles"
    /\ Len(calls) >= 3
    /\ calls[1].count > 0
    /\ calls[1].reset
    /\ calls[1].left = 0
    /\ calls[1].kept # {}
    /\ calls[Len(calls)].reset
    /\ ~calls[Len(calls) - 1].reset
    /\ calls[Len(calls) - 1].count = calls[Len(calls)].count

(* -------------------------- absence tolerance ------------------------- *)

\* Vehicle j claims none of the candidate boxes of the frame.
ClaimsNothing(j) == \A k \in 1 .. Len(boxes) : ~FlagsOf(vehicles[j])[k]

\* C20: a vehicle that claims no candidate box in update_vehicles and whose
\* frames_since_detected, once incremented, is still <= its window_size keeps
\* its box, its window and its frames_detected, and remove_vehicles keeps it
\* in the list; frames_detected never decreases except to 0, together with the
\* box becoming null.
C20_AbsenceTolerated ==
    [][/\ pc = "update_vehicles" =>
              \A j \in 1 .. Len(vehicles) :
                  (/\ ClaimsNothing(j)
                   /\ vehicles[j].frames_since_detected + 1 <= vehicles[j].window_size) =>
                      vehicles'[j] = [vehicles[j] EXCEPT !.frames_since_detected = @ + 1]
       /\ pc = "remove_vehicles" =>
              \A j \in 1 .. Len(vehicles) :
                  vehicles[j].box # None =>
                      \E i \in 1 .. Len(vehicles') : vehicles'[i] = vehicles[j]
       /\ \A j \in 1 .. Len(vehicles), i \in 1 .. Len(vehicles') :
              vehicles'[i].oid = vehicles[j].oid =>
                  \/ vehicles'[i].frames_detected >= vehicles[j].frames_detected
                  \/ vehicles'[i].frames_detected = 0 /\ vehicles'[i].box = None
       /\ \A i \in 1 .. Len(vehicles') :
              vehicles'[i].frames_detected = 0 <=> vehicles'[i].box = None]_vars

\* A call has returned with a vehicle that was detected in two frames or more
\* and has now been absent for as many frames as its window allows.
C20_Witness ==
    /\ pc = "idle"
    /\ \E j \in 1 .. Len(vehicles) :
           /\ vehicles[j].frames_since_detected = vehicles[j].window_size
           /\ vehicles[j].frames_detected >= 2
           /\ vehicles[j].oid \notin calls[Len(calls)].claimers
           /\ ~calls[Len(calls)].reset

====
